---- MODULE Spec2Model ----
(***************************************************************************)
(* State-machine model of MSStageDriving (the "driving" stage of a person  *)
(* or container): construction, proceed, setVehicle, setArrived, abort and *)
(* the read-only queries, together with the collaborators the stage calls  *)
(* (vehicle registry, edge waiting lists, waiting coordinators, vehicles). *)
(***************************************************************************)
EXTENDS Integers, Sequences, FiniteSets, TLC

----------------------------------------------------------------------------
(* Bounds of the model *)

\* the simulation clock runs 0..MaxTime
MaxTime == 1
\* every edge has this length; on-lane positions are 0..EdgeLength
EdgeLength == 2

----------------------------------------------------------------------------
(* The network: edges, stopping places, vehicles *)

nullptr == "nullptr"

Edges == {"e1", "e2"}
Stops == {"s1"}

\* MSStoppingPlace::getLane().getEdge()
StopEdge(s) == "e2"
\* MSStoppingPlace::getWaitingPositionOnLane
StopWaitingPositionOnLane(s) == 1
\* MSStoppingPlace::getWaitPosition: a cartesian position, never INVALID
StopWaitPosition(s) == "xy_s1"

INVALID == "INVALID"

Vehicles == {"V1", "V2"}

DEPART_GIVEN == "DEPART_GIVEN"
DEPART_TRIGGERED == "DEPART_TRIGGERED"
DEPART_CONTAINER_TRIGGERED == "DEPART_CONTAINER_TRIGGERED"

SVC_IGNORING == "SVC_IGNORING"

\* SUMOVehicle::getID
VehID(v) == IF v = "V1" THEN "veh0" ELSE "veh1"
\* SUMOVehicle::getVClass
VehVClass(v) == IF v = "V1" THEN "bus" ELSE "truck"
\* SUMOVehicle::getParameter().departProcedure
VehDepartProcedure(v) == IF v = "V1" THEN DEPART_TRIGGERED ELSE DEPART_CONTAINER_TRIGGERED
\* SUMOVehicle::getRoute(): the edges of the route in order
VehRoute(v) == IF v = "V1" THEN <<"e1", "e2">> ELSE <<"e2">>
\* SUMOVehicle::getDepartPos
VehDepartPos(v) == 0
\* SUMOVehicle::stopsAt: the stopping places the vehicle's route stops at
VehStopsAt(v, stop) == v = "V2" /\ stop = "s1"
\* SUMOVehicle::stopsAtEdge: the edges the vehicle's route stops at
VehStopsAtEdge(v, edge) == edge = "e2"

\* the ids the vehicle registry knows (MSVehicleControl)
\* MSVehicleControl::getVehicle: nullptr for an unknown id
getVehicle(vehID) ==
    IF \E v \in Vehicles : VehID(v) = vehID
    THEN CHOOSE v \in Vehicles : VehID(v) = vehID
    ELSE nullptr

----------------------------------------------------------------------------
(* std::set<std::string> myLines: iteration is in ascending string order *)

LineNames == <<"ANY", "bus1", "taxi", "veh0", "veh1", "veh9">>

LineSet == {LineNames[i] : i \in 1..Len(LineNames)}

LineRank(s) == CHOOSE i \in 1..Len(LineNames) : LineNames[i] = s

\* *myLines.begin(): the least element of a non-empty set
LinesBegin(lines) == CHOOSE s \in lines : \A t \in lines : LineRank(s) <= LineRank(t)

\* the values of myLines the stages are constructed with
AcceptedLines ==
    {{"ANY"}, {"bus1"}, {"taxi"}, {"veh0"}, {"veh9"}, {"taxi", "veh1"}, {"ANY", "veh9"}}

----------------------------------------------------------------------------
(* The transportable and the previous stage: inputs of the stage *)

TRIP == "TRIP"
WALKING == "WALKING"

\* MSTransportable: kind, id, depart procedure, number of stages
Transportables ==
    {t \in [isPerson : BOOLEAN, id : {"t0"},
            departProcedure : {DEPART_GIVEN, DEPART_TRIGGERED},
            numStages : {3}, numRemainingStages : {1, 2}] :
        t.departProcedure = DEPART_TRIGGERED \/ t.numRemainingStages = 2}

\* the stage that just finished, as proceed reads it
PreviousStages ==
    [type : {TRIP, WALKING}, originStop : {nullptr}, destinationStop : Stops \cup {nullptr},
     edge : {"e1"}, edgePos : {0}]
    \cup
    [type : {TRIP}, originStop : Stops, destinationStop : {nullptr},
     edge : {"e1"}, edgePos : {0}]

----------------------------------------------------------------------------
VARIABLES
    \* the stage's fields
    myDestination, myDestinationStop, myArrivalPos, myDeparted, myArrived,
    myLines, myVehicle, myVehicleID, myVehicleLine, myVehicleVClass,
    myVehicleDistance, myWaitingSince, myWaitingEdge, myWaitingPos,
    myStopWaitPos, myIntendedVehicleID, myIntendedDepart,
    \* the owning transportable
    transportable,
    \* the vehicles: line, lane position, route index, stopped, departed
    veh,
    \* per vehicle, whether the transportable is aboard it
    aboard,
    \* MSEdge::myWaiting: the vehicles waiting on each edge
    edgeWaiting,
    \* MSEdge::myPersons / myContainers
    edgePersons, edgeContainers,
    \* MSTransportableControl::myWaiting4Vehicle of the person / container control
    personWaiting, containerWaiting,
    \* MSInsertionControl: the vehicles handed over for insertion
    insertion,
    \* MSVehicleControl::myWaitingForPerson / myWaitingForContainer
    myWaitingForPerson, myWaitingForContainer,
    \* MSDevice_Taxi reservations
    reservations,
    \* the simulation clock
    now,
    \* the record tripInfoOutput wrote to the output device, and the data it
    \* passed to MSDevice_Tripinfo::addRideTransportData
    os, rideData,
    \* the position of the stage in its life cycle, the last call and its argument
    pc, lastOp, lastVeh, error

stageVars ==
    <<myDestination, myDestinationStop, myArrivalPos, myDeparted, myArrived,
      myLines, myVehicle, myVehicleID, myVehicleLine, myVehicleVClass,
      myVehicleDistance, myWaitingSince, myWaitingEdge, myWaitingPos,
      myStopWaitPos, myIntendedVehicleID, myIntendedDepart>>

bindVars == <<myVehicle, myVehicleID, myVehicleLine, myVehicleVClass, myVehicleDistance>>

waitVars == <<myWaitingEdge, myWaitingPos, myStopWaitPos>>

ctorVars ==
    <<myDestination, myDestinationStop, myLines, myIntendedVehicleID, myIntendedDepart>>

registryVars ==
    <<edgeWaiting, edgePersons, edgeContainers, personWaiting, containerWaiting,
      insertion, myWaitingForPerson, myWaitingForContainer, reservations>>

reportVars == <<os, rideData>>

vars ==
    <<stageVars, transportable, veh, aboard, registryVars, now, reportVars,
      pc, lastOp, lastVeh, error>>

----------------------------------------------------------------------------
(* Collaborators of the stage *)

\* the edge a vehicle is on: SUMOVehicle::getEdge / getCurrentRouteEdge
VehEdge(v) == VehRoute(v)[veh[v].routeIdx]

\* MSRoute::getDistanceBetween(departPos, positionOnLane, begin, currentRouteEdge):
\* the length of the route from the depart position to the current position
getDistanceBetween(v) ==
    (veh[v].routeIdx - 1) * EdgeLength + veh[v].pos - VehDepartPos(v)

\* MSVehicleControl::unregisterOneWaiting(isPerson)
unregisterOneWaiting(isPerson) ==
    /\ myWaitingForPerson' = IF isPerson THEN myWaitingForPerson - 1 ELSE myWaitingForPerson
    /\ myWaitingForContainer' = IF isPerson THEN myWaitingForContainer ELSE myWaitingForContainer - 1

----------------------------------------------------------------------------
(* Queries of the stage *)

\* isWaitingFor with the "ANY" rule matched by the destination edge even when a
\* destination stop is set
isWaitingFor_edgeOnly(v) ==
    \/ VehID(v) \in myLines
    \/ veh[v].line \in myLines
    \/ /\ "ANY" \in myLines
       /\ VehStopsAtEdge(v, myDestination)

\* MSStageDriving::isWaitingFor
isWaitingFor(v) ==
    \/ VehID(v) \in myLines
    \/ veh[v].line \in myLines
    \/ /\ "ANY" \in myLines
       /\ IF myDestinationStop = nullptr
          THEN VehStopsAtEdge(v, myDestination)
          ELSE VehStopsAt(v, myDestinationStop)

\* isWaiting4Vehicle with the test inverted
isWaiting4Vehicle_inverted == myVehicle # nullptr

\* MSStageDriving::isWaiting4Vehicle
isWaiting4Vehicle == myVehicle = nullptr

\* getWaitingTime that keeps counting after boarding
getWaitingTime_stillCounting(t) == t - myWaitingSince

\* MSStageDriving::getWaitingTime
getWaitingTime(t) == IF isWaiting4Vehicle THEN t - myWaitingSince ELSE 0

\* the queries of the stage
Queries ==
    {"getEdge", "getEdgePos", "getPosition", "getAngle", "getSpeed", "getWaitingTime",
     "getStageDescription", "getStageSummary", "getWaitingDescription"}

\* the queries that answer where the transportable is now
CurrentAccessors == {"getEdge", "getEdgePos", "getPosition", "getAngle", "getSpeed"}

\* a dereference of the pointer held by a field
Deref(field, value) == [field |-> field, value |-> value]

\* the fields of the stage a query reads besides the test of myVehicle
queryReads(q) ==
    CASE q = "getEdge" -> IF myVehicle # nullptr THEN {} ELSE {"myWaitingEdge"}
      [] q = "getEdgePos" -> IF isWaiting4Vehicle THEN {"myWaitingPos"} ELSE {}
      [] q = "getPosition" ->
            IF isWaiting4Vehicle
            THEN IF myStopWaitPos # INVALID
                 THEN {"myStopWaitPos"}
                 ELSE {"myStopWaitPos", "myWaitingEdge", "myWaitingPos"}
            ELSE {}
      [] q = "getAngle" -> IF ~isWaiting4Vehicle THEN {} ELSE {"myWaitingEdge", "myWaitingPos"}
      [] q = "getSpeed" -> {}
      [] q = "getWaitingTime" -> IF isWaiting4Vehicle THEN {"myWaitingSince"} ELSE {}
      [] q = "getStageDescription" -> IF isWaiting4Vehicle THEN {"myLines"} ELSE {}
      [] q = "getStageSummary" ->
            {"myDestinationStop", "myDestination", "myIntendedVehicleID", "myIntendedDepart"}
            \cup (IF isWaiting4Vehicle THEN {"myLines"} ELSE {})
      [] q = "getWaitingDescription" ->
            IF isWaiting4Vehicle
            THEN {"myLines", "myDestinationStop"}
                 \cup (IF myDestinationStop = nullptr THEN {"myWaitingEdge"} ELSE {})
            ELSE {}

\* queryDerefs with a getSpeed that asks the vehicle without testing for it
queryDerefs_unguardedSpeed(q) ==
    CASE q = "getEdge" -> IF myVehicle # nullptr THEN {Deref("myVehicle", myVehicle)} ELSE {}
      [] q = "getEdgePos" -> IF isWaiting4Vehicle THEN {} ELSE {Deref("myVehicle", myVehicle)}
      [] q = "getPosition" ->
            IF isWaiting4Vehicle
            THEN IF myStopWaitPos # INVALID THEN {} ELSE {Deref("myWaitingEdge", myWaitingEdge)}
            ELSE {Deref("myVehicle", myVehicle)}
      [] q = "getAngle" ->
            IF ~isWaiting4Vehicle
            THEN {Deref("myVehicle", myVehicle)}
            ELSE {Deref("myWaitingEdge", myWaitingEdge)}
      [] q = "getSpeed" -> {Deref("myVehicle", myVehicle)}
      [] q = "getWaitingTime" -> {}
      [] q = "getStageDescription" -> {}
      [] q = "getStageSummary" ->
            IF myDestinationStop = nullptr
            THEN {Deref("myDestination", myDestination)}
            ELSE {Deref("myDestinationStop", myDestinationStop)}
      [] q = "getWaitingDescription" ->
            IF isWaiting4Vehicle
            THEN IF myDestinationStop = nullptr
                 THEN {Deref("myWaitingEdge", myWaitingEdge)}
                 ELSE {Deref("myDestinationStop", myDestinationStop)}
            ELSE {}

\* the pointers a query dereferences
queryDerefs(q) ==
    CASE q = "getEdge" -> IF myVehicle # nullptr THEN {Deref("myVehicle", myVehicle)} ELSE {}
      [] q = "getEdgePos" -> IF isWaiting4Vehicle THEN {} ELSE {Deref("myVehicle", myVehicle)}
      [] q = "getPosition" ->
            IF isWaiting4Vehicle
            THEN IF myStopWaitPos # INVALID THEN {} ELSE {Deref("myWaitingEdge", myWaitingEdge)}
            ELSE {Deref("myVehicle", myVehicle)}
      [] q = "getAngle" ->
            IF ~isWaiting4Vehicle
            THEN {Deref("myVehicle", myVehicle)}
            ELSE {Deref("myWaitingEdge", myWaitingEdge)}
      [] q = "getSpeed" -> IF isWaiting4Vehicle THEN {} ELSE {Deref("myVehicle", myVehicle)}
      [] q = "getWaitingTime" -> {}
      [] q = "getStageDescription" -> {}
      [] q = "getStageSummary" ->
            IF myDestinationStop = nullptr
            THEN {Deref("myDestination", myDestination)}
            ELSE {Deref("myDestinationStop", myDestinationStop)}
      [] q = "getWaitingDescription" ->
            IF isWaiting4Vehicle
            THEN IF myDestinationStop = nullptr
                 THEN {Deref("myWaitingEdge", myWaitingEdge)}
                 ELSE {Deref("myDestinationStop", myDestinationStop)}
            ELSE {}

\* joinToString(myLines, ","): the elements in the order of iteration
joinToString(lines) == SelectSeq(LineNames, LAMBDA l : l \in lines)

\* MSStageDriving::getWaitingDescription: the parts of the string, <<>> for ""
getWaitingDescription ==
    IF isWaiting4Vehicle
    THEN <<"waiting for ">> \o joinToString(myLines) \o <<" at ">>
         \o (IF myDestinationStop = nullptr
             THEN <<"edge '", myWaitingEdge, "'">>
             ELSE <<"busStop '", myDestinationStop, "'">>)
    ELSE <<>>

\* the constructor: the stage it builds from a vector of lines
construct(destination, toStop, arrivalPos, lines, intendedVeh, intendedDepart) ==
    [myDestination |-> destination,
     myDestinationStop |-> toStop,
     myArrivalPos |-> arrivalPos,
     myDeparted |-> -1,
     myArrived |-> -1,
     myLines |-> {lines[i] : i \in 1..Len(lines)},
     myVehicle |-> nullptr,
     myVehicleID |-> "NULL",
     myVehicleVClass |-> SVC_IGNORING,
     myVehicleDistance |-> -1,
     myWaitingSince |-> -1,
     myWaitingEdge |-> nullptr,
     myStopWaitPos |-> INVALID,
     myIntendedVehicleID |-> intendedVeh,
     myIntendedDepart |-> intendedDepart]

\* a clone that copies the state of the ride with the stage
clone_copiesRide ==
    [construct(myDestination, myDestinationStop, myArrivalPos, joinToString(myLines),
               myIntendedVehicleID, myIntendedDepart)
     EXCEPT !.myVehicle = myVehicle,
            !.myVehicleID = myVehicleID,
            !.myVehicleDistance = myVehicleDistance,
            !.myWaitingSince = myWaitingSince]

\* MSStageDriving::clone
clone ==
    construct(myDestination, myDestinationStop, myArrivalPos, joinToString(myLines),
              myIntendedVehicleID, myIntendedDepart)

\* MSEdge::getWaitingVehicle: the vehicles waiting on the edge that accept the
\* transportable at this position
WaitingVehicles(edge, position) ==
    {v \in edgeWaiting[edge] :
        /\ isWaitingFor(v)
        /\ \/ veh[v].stopped /\ veh[v].pos = position
           \/ /\ ~veh[v].departed
              /\ VehDepartProcedure(v) \in {DEPART_TRIGGERED, DEPART_CONTAINER_TRIGGERED}}

----------------------------------------------------------------------------
(* Construction *)

\* MSStageDriving::MSStageDriving: the stage after construction
StageInit ==
    /\ myDestination \in Edges
    /\ myDestinationStop \in {nullptr} \cup {s \in Stops : StopEdge(s) = myDestination}
    /\ myArrivalPos = 0
    /\ myDeparted = -1
    /\ myArrived = -1
    /\ myLines \in AcceptedLines
    /\ myVehicle = nullptr
    /\ myVehicleID = "NULL"
    /\ myVehicleLine = ""
    /\ myVehicleVClass = SVC_IGNORING
    /\ myVehicleDistance = -1
    /\ myWaitingSince = -1
    /\ myWaitingEdge = nullptr
    /\ myWaitingPos \in {0, EdgeLength}
    /\ myStopWaitPos = INVALID
    /\ myIntendedVehicleID = ""
    /\ myIntendedDepart = -1

Init ==
    /\ StageInit
    /\ transportable \in Transportables
    /\ veh = [v \in Vehicles |->
                [line |-> IF v = "V1" THEN "bus1" ELSE "taxi",
                 pos |-> VehDepartPos(v), routeIdx |-> 1,
                 stopped |-> FALSE, departed |-> FALSE]]
    /\ aboard = {}
    /\ edgeWaiting = [e \in Edges |-> {v \in Vehicles : VehRoute(v)[1] = e}]
    /\ edgePersons = [e \in Edges |-> {}]
    /\ edgeContainers = [e \in Edges |-> {}]
    /\ personWaiting = [e \in Edges |-> {}]
    /\ containerWaiting = [e \in Edges |-> {}]
    /\ insertion = {}
    /\ myWaitingForPerson =
          Cardinality({v \in Vehicles : VehDepartProcedure(v) = DEPART_TRIGGERED})
    /\ myWaitingForContainer =
          Cardinality({v \in Vehicles : VehDepartProcedure(v) = DEPART_CONTAINER_TRIGGERED})
    /\ reservations = <<>>
    /\ now = 0
    /\ pc = "constructed"
    /\ os = <<>>
    /\ rideData = <<>>
    /\ lastOp = "construct"
    /\ lastVeh = nullptr
    /\ error = <<>>

----------------------------------------------------------------------------
(* Binding *)

\* setVehicle whose baseline is the lane position only, the route edges already
\* driven left out
setVehicle_lanePosOnly(v) ==
    /\ myVehicle' = v
    /\ myVehicleID' = VehID(v)
    /\ myVehicleLine' = veh[v].line
    /\ myVehicleVClass' = VehVClass(v)
    /\ myVehicleDistance' = veh[v].pos - VehDepartPos(v)

\* MSStageDriving::setVehicle
setVehicle(v) ==
    /\ myVehicle' = v
    /\ myVehicleID' = VehID(v)
    /\ myVehicleLine' = veh[v].line
    /\ myVehicleVClass' = VehVClass(v)
    /\ myVehicleDistance' = getDistanceBetween(v)

----------------------------------------------------------------------------
(* Activation *)

\* the origin stop proceed derives from the previous stage
proceedStart(previous) ==
    IF previous.type = TRIP THEN previous.originStop ELSE previous.destinationStop

\* the condition of the triggered-start branch of proceed
isTriggeredStart ==
    /\ transportable.departProcedure = DEPART_TRIGGERED
    /\ transportable.numRemainingStages = transportable.numStages - 1

\* the failing triggered start that has already recorded the vehicle id when it
\* throws
proceedThrow_recordsID ==
    /\ isTriggeredStart
    /\ getVehicle(LinesBegin(myLines)) = nullptr
    /\ myWaitingSince' = now
    /\ myVehicleID' = LinesBegin(myLines)
    /\ error' = <<LinesBegin(myLines),
                  IF transportable.isPerson THEN "person" ELSE "container",
                  transportable.id>>
    /\ pc' = "error"
    /\ lastOp' = "proceedThrow"
    /\ UNCHANGED reportVars
    /\ lastVeh' = nullptr
    /\ UNCHANGED <<myArrivalPos, myDeparted, myArrived, ctorVars, waitVars>>
    /\ UNCHANGED <<myVehicle, myVehicleLine, myVehicleVClass, myVehicleDistance>>
    /\ UNCHANGED <<aboard, registryVars>>

\* proceed, triggered start, the vehicle named by *myLines.begin() is unknown:
\* ProcessError is thrown
proceedThrow ==
    /\ isTriggeredStart
    /\ getVehicle(LinesBegin(myLines)) = nullptr
    /\ myWaitingSince' = now
    /\ error' = <<LinesBegin(myLines),
                  IF transportable.isPerson THEN "person" ELSE "container",
                  transportable.id>>
    /\ pc' = "error"
    /\ lastOp' = "proceedThrow"
    /\ UNCHANGED reportVars
    /\ lastVeh' = nullptr
    /\ UNCHANGED <<myArrivalPos, myDeparted, myArrived, ctorVars, bindVars, waitVars>>
    /\ UNCHANGED <<aboard, registryVars>>

\* proceedTriggeredStart that registers the transportable as waiting on the
\* edge of the vehicle
proceedTriggeredStart_entersWaiting ==
    /\ isTriggeredStart
    /\ getVehicle(LinesBegin(myLines)) # nullptr
    /\ myWaitingSince' = now
    /\ setVehicle(getVehicle(LinesBegin(myLines)))
    /\ aboard' = aboard \cup {getVehicle(LinesBegin(myLines))}
    /\ myWaitingEdge' = VehEdge(getVehicle(LinesBegin(myLines)))
    /\ edgePersons' = [edgePersons EXCEPT ![myWaitingEdge'] = @ \cup {transportable.id}]
    /\ pc' = "active"
    /\ lastOp' = "proceed"
    /\ UNCHANGED reportVars
    /\ lastVeh' = getVehicle(LinesBegin(myLines))
    /\ UNCHANGED <<myArrivalPos, myDeparted, myArrived, ctorVars, myWaitingPos, myStopWaitPos>>
    /\ UNCHANGED <<edgeWaiting, edgeContainers, personWaiting, containerWaiting, insertion,
                   myWaitingForPerson, myWaitingForContainer, reservations, error>>

\* proceed, triggered start, the named vehicle exists
proceedTriggeredStart ==
    /\ isTriggeredStart
    /\ getVehicle(LinesBegin(myLines)) # nullptr
    /\ myWaitingSince' = now
    /\ setVehicle(getVehicle(LinesBegin(myLines)))
    /\ aboard' = aboard \cup {getVehicle(LinesBegin(myLines))}
    /\ pc' = "active"
    /\ lastOp' = "proceed"
    /\ UNCHANGED reportVars
    /\ lastVeh' = getVehicle(LinesBegin(myLines))
    /\ UNCHANGED <<myArrivalPos, myDeparted, myArrived, ctorVars, waitVars>>
    /\ UNCHANGED <<registryVars, error>>

\* proceedBind that leaves the vehicle among the vehicles waiting on the edge
proceedBind_keepsWaitingVehicle(availableVehicle) ==
    /\ setVehicle(availableVehicle)
    /\ aboard' = aboard \cup {availableVehicle}
    /\ insertion' = insertion \cup {availableVehicle}
    /\ unregisterOneWaiting(TRUE)
    /\ lastVeh' = availableVehicle
    /\ UNCHANGED <<edgeWaiting, edgePersons, edgeContainers, personWaiting, containerWaiting,
                   reservations>>

\* proceed, the vehicle found on the waiting edge is bound at once
proceedBind(availableVehicle) ==
    /\ setVehicle(availableVehicle)
    /\ aboard' = aboard \cup {availableVehicle}
    /\ insertion' = insertion \cup {availableVehicle}
    /\ edgeWaiting' = [edgeWaiting EXCEPT ![myWaitingEdge'] = @ \ {availableVehicle}]
    /\ unregisterOneWaiting(TRUE)
    /\ lastVeh' = availableVehicle
    /\ UNCHANGED <<edgePersons, edgeContainers, personWaiting, containerWaiting, reservations>>

\* proceed, the transportable is left waiting
proceedWait ==
    /\ IF transportable.isPerson
       THEN /\ personWaiting' = [personWaiting EXCEPT ![myWaitingEdge'] = @ \cup {transportable.id}]
            /\ edgePersons' = [edgePersons EXCEPT ![myWaitingEdge'] = @ \cup {transportable.id}]
            /\ reservations' =
                  IF Cardinality(myLines) = 1 /\ LinesBegin(myLines) = "taxi"
                  THEN Append(reservations,
                              [person |-> transportable.id, reservationTime |-> now,
                               pickupTime |-> now, from |-> myWaitingEdge',
                               fromPos |-> myWaitingPos', to |-> myDestination,
                               toPos |-> myArrivalPos])
                  ELSE reservations
            /\ UNCHANGED <<containerWaiting, edgeContainers>>
       ELSE /\ containerWaiting' = [containerWaiting EXCEPT ![myWaitingEdge'] = @ \cup {transportable.id}]
            /\ edgeContainers' = [edgeContainers EXCEPT ![myWaitingEdge'] = @ \cup {transportable.id}]
            /\ UNCHANGED <<personWaiting, edgePersons, reservations>>
    /\ lastVeh' = nullptr
    /\ UNCHANGED <<bindVars, aboard, insertion, edgeWaiting, myWaitingForPerson, myWaitingForContainer>>

\* proceed, not a triggered start: the waiting location is computed, then the
\* vehicle waiting on the edge is bound or the transportable is left waiting
proceedLocate(previous) ==
    /\ ~isTriggeredStart
    /\ myWaitingSince' = now
    /\ IF proceedStart(previous) # nullptr
       THEN /\ myWaitingEdge' = StopEdge(proceedStart(previous))
            /\ myStopWaitPos' = StopWaitPosition(proceedStart(previous))
            /\ myWaitingPos' = StopWaitingPositionOnLane(proceedStart(previous))
       ELSE /\ myWaitingEdge' = previous.edge
            /\ myStopWaitPos' = INVALID
            /\ myWaitingPos' = previous.edgePos
    /\ \E availableVehicle \in Vehicles \cup {nullptr} :
          /\ IF WaitingVehicles(myWaitingEdge', myWaitingPos') = {}
             THEN availableVehicle = nullptr
             ELSE availableVehicle \in WaitingVehicles(myWaitingEdge', myWaitingPos')
          /\ IF /\ availableVehicle # nullptr
                /\ \/ transportable.isPerson
                      /\ VehDepartProcedure(availableVehicle) = DEPART_TRIGGERED
                   \/ ~transportable.isPerson
                      /\ VehDepartProcedure(availableVehicle) = DEPART_CONTAINER_TRIGGERED
                /\ ~veh[availableVehicle].departed
             THEN proceedBind(availableVehicle)
             ELSE proceedWait
    /\ pc' = "active"
    /\ lastOp' = "proceed"
    /\ UNCHANGED reportVars
    /\ UNCHANGED <<myArrivalPos, myDeparted, myArrived, ctorVars, error>>

\* MSStageDriving::proceed
proceed ==
    /\ pc = "constructed"
    /\ \/ proceedThrow
       \/ proceedTriggeredStart
       \/ \E previous \in PreviousStages : proceedLocate(previous)
    /\ UNCHANGED <<transportable, veh, now>>

----------------------------------------------------------------------------
(* Binding by a vehicle that picks the waiting transportable up *)

\* the edges on which the transportable is registered as waiting
WaitingAt ==
    {e \in Edges : transportable.id \in
                      (IF transportable.isPerson THEN personWaiting[e] ELSE containerWaiting[e])}

\* MSTransportableControl::boardAnyWaiting / loadAnyWaiting: a stopped vehicle
\* takes the waiting transportable and calls setVehicle on its stage
board(v) ==
    /\ pc = "active"
    /\ myVehicle = nullptr
    /\ veh[v].departed
    /\ veh[v].stopped
    /\ VehEdge(v) \in WaitingAt
    /\ isWaitingFor(v)
    /\ setVehicle(v)
    /\ aboard' = aboard \cup {v}
    /\ IF transportable.isPerson
       THEN /\ personWaiting' = [personWaiting EXCEPT ![VehEdge(v)] = @ \ {transportable.id}]
            /\ edgePersons' = [edgePersons EXCEPT ![VehEdge(v)] = @ \ {transportable.id}]
            /\ UNCHANGED <<containerWaiting, edgeContainers>>
       ELSE /\ containerWaiting' = [containerWaiting EXCEPT ![VehEdge(v)] = @ \ {transportable.id}]
            /\ edgeContainers' = [edgeContainers EXCEPT ![VehEdge(v)] = @ \ {transportable.id}]
            /\ UNCHANGED <<personWaiting, edgePersons>>
    /\ lastOp' = "setVehicle"
    /\ UNCHANGED reportVars
    /\ lastVeh' = v
    /\ UNCHANGED <<myArrivalPos, myDeparted, myArrived, ctorVars, myWaitingSince, waitVars>>
    /\ UNCHANGED <<transportable, veh, now, pc, error>>
    /\ UNCHANGED <<edgeWaiting, insertion, myWaitingForPerson, myWaitingForContainer, reservations>>

\* MSStage::setDeparted: the vehicle carrying the transportable sets the
\* departure time of the stage
setDeparted ==
    /\ pc = "active"
    /\ myVehicle # nullptr
    /\ myVehicle \in aboard
    /\ veh[myVehicle].departed
    /\ myDeparted < 0
    /\ myDeparted' = now
    /\ lastOp' = "setDeparted"
    /\ UNCHANGED reportVars
    /\ lastVeh' = nullptr
    /\ UNCHANGED <<myArrivalPos, myArrived, ctorVars, bindVars, myWaitingSince, waitVars>>
    /\ UNCHANGED <<transportable, veh, aboard, registryVars, now, pc, error>>

----------------------------------------------------------------------------
(* Termination *)

\* MSStage::setArrived: the arrival time of the stage
MSStage_setArrived(t) == myArrived' = t

\* setArrived that stores the vehicle's whole distance, the baseline not
\* subtracted
setArrived_noSubtraction ==
    /\ pc \in {"active", "aborted"}
    /\ MSStage_setArrived(now)
    /\ IF myVehicle # nullptr
       THEN /\ myVehicleDistance' = getDistanceBetween(myVehicle)
            /\ myArrivalPos' = IF veh[myVehicle].stopped THEN veh[myVehicle].pos ELSE myArrivalPos
       ELSE /\ myVehicleDistance' = -1
            /\ myArrivalPos' = myArrivalPos
    /\ pc' = "arrived"
    /\ lastOp' = "setArrived"
    /\ UNCHANGED reportVars
    /\ lastVeh' = nullptr
    /\ UNCHANGED <<myDeparted, ctorVars, myVehicle, myVehicleID, myVehicleLine, myVehicleVClass>>
    /\ UNCHANGED <<myWaitingSince, waitVars>>
    /\ UNCHANGED <<transportable, veh, aboard, registryVars, now, error>>

\* setArrived that takes the vehicle's position as arrival position whether or
\* not the vehicle is stopped
setArrived_noStopCheck ==
    /\ pc \in {"active", "aborted"}
    /\ MSStage_setArrived(now)
    /\ IF myVehicle # nullptr
       THEN /\ myVehicleDistance' = getDistanceBetween(myVehicle) - myVehicleDistance
            /\ myArrivalPos' = veh[myVehicle].pos
       ELSE /\ myVehicleDistance' = -1
            /\ myArrivalPos' = myArrivalPos
    /\ pc' = "arrived"
    /\ lastOp' = "setArrived"
    /\ UNCHANGED reportVars
    /\ lastVeh' = nullptr
    /\ UNCHANGED <<myDeparted, ctorVars, myVehicle, myVehicleID, myVehicleLine, myVehicleVClass>>
    /\ UNCHANGED <<myWaitingSince, waitVars>>
    /\ UNCHANGED <<transportable, veh, aboard, registryVars, now, error>>

\* setArrived that refreshes the cached line of the vehicle
setArrived_refreshesLine ==
    /\ pc \in {"active", "aborted"}
    /\ MSStage_setArrived(now)
    /\ IF myVehicle # nullptr
       THEN /\ myVehicleDistance' = getDistanceBetween(myVehicle) - myVehicleDistance
            /\ myArrivalPos' = IF veh[myVehicle].stopped THEN veh[myVehicle].pos ELSE myArrivalPos
            /\ myVehicleLine' = veh[myVehicle].line
       ELSE /\ myVehicleDistance' = -1
            /\ myArrivalPos' = myArrivalPos
            /\ myVehicleLine' = myVehicleLine
    /\ pc' = "arrived"
    /\ lastOp' = "setArrived"
    /\ UNCHANGED reportVars
    /\ lastVeh' = nullptr
    /\ UNCHANGED <<myDeparted, ctorVars, myVehicle, myVehicleID, myVehicleVClass>>
    /\ UNCHANGED <<myWaitingSince, waitVars>>
    /\ UNCHANGED <<transportable, veh, aboard, registryVars, now, error>>

\* MSStageDriving::setArrived
setArrived ==
    /\ pc \in {"active", "aborted"}
    /\ MSStage_setArrived(now)
    /\ IF myVehicle # nullptr
       THEN /\ myVehicleDistance' = getDistanceBetween(myVehicle) - myVehicleDistance
            /\ myArrivalPos' = IF veh[myVehicle].stopped THEN veh[myVehicle].pos ELSE myArrivalPos
       ELSE /\ myVehicleDistance' = -1
            /\ myArrivalPos' = myArrivalPos
    /\ pc' = "arrived"
    /\ lastOp' = "setArrived"
    /\ UNCHANGED reportVars
    /\ lastVeh' = nullptr
    /\ UNCHANGED <<myDeparted, ctorVars, myVehicle, myVehicleID, myVehicleLine, myVehicleVClass>>
    /\ UNCHANGED <<myWaitingSince, waitVars>>
    /\ UNCHANGED <<transportable, veh, aboard, registryVars, now, error>>

\* MSTransportableControl::abortWaitingForVehicle(t) of the person control
\* (isPersonControl) or of the container control
abortWaitingForVehicle(isPersonControl, t) ==
    /\ personWaiting' = IF isPersonControl
                        THEN [e \in Edges |-> personWaiting[e] \ {t}]
                        ELSE personWaiting
    /\ containerWaiting' = IF isPersonControl
                           THEN containerWaiting
                           ELSE [e \in Edges |-> containerWaiting[e] \ {t}]

\* abort that also forgets the vehicle
abort_unbinds ==
    /\ pc = "active"
    /\ IF myVehicle # nullptr
       THEN /\ aboard' = aboard \ {myVehicle}
            /\ UNCHANGED <<personWaiting, containerWaiting>>
       ELSE /\ abortWaitingForVehicle(transportable.isPerson, transportable.id)
            /\ UNCHANGED aboard
    /\ myVehicle' = nullptr
    /\ pc' = "aborted"
    /\ lastOp' = "abort"
    /\ UNCHANGED reportVars
    /\ lastVeh' = nullptr
    /\ UNCHANGED <<myDestination, myDestinationStop, myArrivalPos, myDeparted, myArrived,
                   myLines, myVehicleID, myVehicleLine, myVehicleVClass,
                   myVehicleDistance, myWaitingSince, myWaitingEdge, myWaitingPos,
                   myStopWaitPos, myIntendedVehicleID, myIntendedDepart>>
    /\ UNCHANGED <<edgeWaiting, edgePersons, edgeContainers, insertion,
                   myWaitingForPerson, myWaitingForContainer, reservations>>
    /\ UNCHANGED <<transportable, veh, now, error>>

\* abort that finalizes the distance when it detaches the transportable
abort_finalizesDistance ==
    /\ pc = "active"
    /\ IF myVehicle # nullptr
       THEN /\ aboard' = aboard \ {myVehicle}
            /\ myVehicleDistance' = getDistanceBetween(myVehicle) - myVehicleDistance
            /\ UNCHANGED <<personWaiting, containerWaiting>>
       ELSE /\ abortWaitingForVehicle(transportable.isPerson, transportable.id)
            /\ UNCHANGED <<aboard, myVehicleDistance>>
    /\ pc' = "aborted"
    /\ lastOp' = "abort"
    /\ UNCHANGED reportVars
    /\ lastVeh' = nullptr
    /\ UNCHANGED <<myDestination, myDestinationStop, myArrivalPos, myDeparted, myArrived,
                   myLines, myVehicle, myVehicleID, myVehicleLine, myVehicleVClass,
                   myWaitingSince, myWaitingEdge, myWaitingPos,
                   myStopWaitPos, myIntendedVehicleID, myIntendedDepart>>
    /\ UNCHANGED <<edgeWaiting, edgePersons, edgeContainers, insertion,
                   myWaitingForPerson, myWaitingForContainer, reservations>>
    /\ UNCHANGED <<transportable, veh, now, error>>

\* abort that always cancels the wait through the person control
abort_personControlOnly ==
    /\ pc = "active"
    /\ IF myVehicle # nullptr
       THEN /\ aboard' = aboard \ {myVehicle}
            /\ UNCHANGED <<personWaiting, containerWaiting>>
       ELSE /\ abortWaitingForVehicle(TRUE, transportable.id)
            /\ UNCHANGED aboard
    /\ pc' = "aborted"
    /\ lastOp' = "abort"
    /\ UNCHANGED reportVars
    /\ lastVeh' = nullptr
    /\ UNCHANGED stageVars
    /\ UNCHANGED <<edgeWaiting, edgePersons, edgeContainers, insertion,
                   myWaitingForPerson, myWaitingForContainer, reservations>>
    /\ UNCHANGED <<transportable, veh, now, error>>

\* MSStageDriving::abort
abort ==
    /\ pc = "active"
    /\ IF myVehicle # nullptr
       THEN /\ aboard' = aboard \ {myVehicle}
            /\ UNCHANGED <<personWaiting, containerWaiting>>
       ELSE /\ abortWaitingForVehicle(transportable.isPerson, transportable.id)
            /\ UNCHANGED aboard
    /\ pc' = "aborted"
    /\ lastOp' = "abort"
    /\ UNCHANGED reportVars
    /\ lastVeh' = nullptr
    /\ UNCHANGED stageVars
    /\ UNCHANGED <<edgeWaiting, edgePersons, edgeContainers, insertion,
                   myWaitingForPerson, myWaitingForContainer, reservations>>
    /\ UNCHANGED <<transportable, veh, now, error>>

----------------------------------------------------------------------------
(* Reporting *)

\* time2string, toString: the text written for a time or a number
time2string(t) == ToString(t)

\* MSStageDriving::tripInfoOutput: the statistics record of the stage is
\* written and its summary passed to the statistics aggregator; the stage is
\* not followed any further
tripInfoOutput ==
    /\ pc \in {"active", "aborted", "arrived"}
    /\ LET departed == IF myDeparted >= 0 THEN myDeparted ELSE now
           waitingTime == IF myWaitingSince >= 0 THEN departed - myWaitingSince ELSE -1
           duration == myArrived - myDeparted
       IN  /\ rideData' = [isPerson |-> transportable.isPerson,
                           distance |-> myVehicleDistance,
                           duration |-> duration,
                           vClass |-> myVehicleVClass,
                           line |-> myVehicleLine,
                           waitingTime |-> waitingTime]
           /\ os' = [tag |-> IF transportable.isPerson THEN "ride" ELSE "transport",
                     waitingTime |-> IF waitingTime >= 0 THEN time2string(waitingTime) ELSE "-1",
                     vehicle |-> myVehicleID,
                     depart |-> IF myDeparted >= 0 THEN time2string(myDeparted) ELSE "-1",
                     arrival |-> IF myArrived >= 0 THEN time2string(myArrived) ELSE "-1",
                     arrivalPos |-> ToString(myArrivalPos),
                     duration |-> IF myArrived >= 0
                                  THEN time2string(duration)
                                  ELSE IF myDeparted >= 0
                                       THEN time2string(now - myDeparted)
                                       ELSE "-1",
                     routeLength |-> myVehicleDistance]
    /\ pc' = "reported"
    /\ lastOp' = "tripInfoOutput"
    /\ lastVeh' = nullptr
    /\ UNCHANGED <<stageVars, transportable, veh, aboard, registryVars, now, error>>

----------------------------------------------------------------------------
(* The simulation around the stage: the clock and the vehicles *)

\* the simulation is followed while the stage is alive: until the stage has
\* arrived, its activation has failed or its statistics have been written
alive == pc \in {"constructed", "active", "aborted"}

\* the simulation advances by one time step
tick ==
    /\ alive
    /\ now < MaxTime
    /\ now' = now + 1
    /\ lastOp' = "sim"
    /\ UNCHANGED reportVars
    /\ lastVeh' = nullptr
    /\ UNCHANGED <<stageVars, transportable, veh, aboard, registryVars, pc, error>>

\* a vehicle departs: inserted after proceed handed it to the insertion
\* control, or triggered by another transportable
depart(v) ==
    /\ alive
    /\ ~veh[v].departed
    /\ veh' = [veh EXCEPT ![v].departed = TRUE]
    /\ insertion' = insertion \ {v}
    /\ IF v \in insertion
       THEN UNCHANGED <<edgeWaiting, myWaitingForPerson, myWaitingForContainer>>
       ELSE /\ edgeWaiting' = [edgeWaiting EXCEPT ![VehEdge(v)] = @ \ {v}]
            /\ unregisterOneWaiting(VehDepartProcedure(v) = DEPART_TRIGGERED)
    /\ lastOp' = "sim"
    /\ UNCHANGED reportVars
    /\ lastVeh' = nullptr
    /\ UNCHANGED <<stageVars, transportable, aboard, now, pc, error>>
    /\ UNCHANGED <<edgePersons, edgeContainers, personWaiting, containerWaiting, reservations>>

\* a departed vehicle drives on: along its lane, then onto the next route edge;
\* on the last edge of its route it stays where it entered it
move(v) ==
    /\ alive
    /\ veh[v].departed
    /\ ~veh[v].stopped
    /\ veh[v].routeIdx < Len(VehRoute(v))
    /\ \/ /\ veh[v].pos < EdgeLength
          /\ veh' = [veh EXCEPT ![v].pos = @ + 1]
       \/ /\ veh[v].pos = EdgeLength
          /\ veh' = [veh EXCEPT ![v].pos = 0, ![v].routeIdx = @ + 1]
    /\ lastOp' = "sim"
    /\ UNCHANGED reportVars
    /\ lastVeh' = nullptr
    /\ UNCHANGED <<stageVars, transportable, aboard, registryVars, now, pc, error>>

\* a departed vehicle halts at a stop and waits there for transportables
stop(v) ==
    /\ alive
    /\ veh[v].departed
    /\ ~veh[v].stopped
    /\ veh' = [veh EXCEPT ![v].stopped = TRUE]
    /\ edgeWaiting' = [edgeWaiting EXCEPT ![VehEdge(v)] = @ \cup {v}]
    /\ lastOp' = "sim"
    /\ UNCHANGED reportVars
    /\ lastVeh' = nullptr
    /\ UNCHANGED <<stageVars, transportable, aboard, now, pc, error>>
    /\ UNCHANGED <<edgePersons, edgeContainers, personWaiting, containerWaiting,
                   insertion, myWaitingForPerson, myWaitingForContainer, reservations>>

\* a stopped vehicle resumes its journey
resume(v) ==
    /\ alive
    /\ veh[v].stopped
    /\ veh' = [veh EXCEPT ![v].stopped = FALSE]
    /\ edgeWaiting' = [edgeWaiting EXCEPT ![VehEdge(v)] = @ \ {v}]
    /\ lastOp' = "sim"
    /\ UNCHANGED reportVars
    /\ lastVeh' = nullptr
    /\ UNCHANGED <<stageVars, transportable, aboard, now, pc, error>>
    /\ UNCHANGED <<edgePersons, edgeContainers, personWaiting, containerWaiting,
                   insertion, myWaitingForPerson, myWaitingForContainer, reservations>>

\* the line labels a vehicle may carry
VehLines == {"bus1", "taxi"}

\* the vehicle the stage is bound to is given another line label
changeLine(v) ==
    /\ alive
    /\ myVehicle = v
    /\ \E l \in VehLines \ {veh[v].line} : veh' = [veh EXCEPT ![v].line = l]
    /\ lastOp' = "sim"
    /\ UNCHANGED reportVars
    /\ lastVeh' = nullptr
    /\ UNCHANGED <<stageVars, transportable, aboard, registryVars, now, pc, error>>

----------------------------------------------------------------------------
Next ==
    \/ proceed
    \/ \E v \in Vehicles : board(v)
    \/ setDeparted
    \/ setArrived
    \/ abort
    \/ tripInfoOutput
    \/ tick
    \/ \E v \in Vehicles : depart(v)
    \/ \E v \in Vehicles : move(v)
    \/ \E v \in Vehicles : stop(v)
    \/ \E v \in Vehicles : resume(v)
    \/ \E v \in Vehicles : changeLine(v)

Spec == Init /\ [][Next]_vars

----------------------------------------------------------------------------
(* Properties *)

\* C1: in every reachable state isWaiting4Vehicle() is true if and only if no
\* vehicle is bound to the stage
C1_WaitingIffUnbound ==
    isWaiting4Vehicle <=> ~(myVehicle \in Vehicles)

\* a stage that was bound and then aborted still counts as bound
C1_Witness ==
    /\ pc = "aborted"
    /\ myVehicle \in Vehicles
    /\ ~isWaiting4Vehicle

\* C2 as stated: when proceed is called for a triggered start whose vehicle is
\* not registered, it fails with an error naming the vehicle id, the kind and
\* the id of the transportable, and every field of the stage and every registry
\* keeps its value
C2_NoMutationOnThrow ==
    [][(/\ pc = "constructed"
        /\ pc' # "constructed"
        /\ isTriggeredStart
        /\ getVehicle(LinesBegin(myLines)) = nullptr)
       => (/\ pc' = "error"
           /\ error' = <<LinesBegin(myLines),
                         IF transportable.isPerson THEN "person" ELSE "container",
                         transportable.id>>
           /\ UNCHANGED stageVars
           /\ UNCHANGED <<aboard, registryVars, veh>>)]_vars

\* C2 amended: the failing triggered start names the vehicle id, the kind and
\* the id of the transportable and leaves every registry and every field of the
\* stage as it was, except waitingSince, which has been set to the current time
C2_OnlyWaitingSinceOnThrow ==
    [][(/\ pc = "constructed"
        /\ pc' # "constructed"
        /\ isTriggeredStart
        /\ getVehicle(LinesBegin(myLines)) = nullptr)
       => (/\ pc' = "error"
           /\ error' = <<LinesBegin(myLines),
                         IF transportable.isPerson THEN "person" ELSE "container",
                         transportable.id>>
           /\ myWaitingSince' = now
           /\ UNCHANGED <<myArrivalPos, myDeparted, myArrived, ctorVars, bindVars, waitVars>>
           /\ UNCHANGED <<aboard, registryVars, veh>>)]_vars

\* the triggered start of a person failed at time 1 for the unknown vehicle veh9
C2_Witness ==
    /\ pc = "error"
    /\ lastOp = "proceedThrow"
    /\ error = <<"veh9", "person", "t0">>
    /\ myWaitingSince = 1
    /\ myVehicle = nullptr

\* C3: once a vehicle is bound to the stage no later step makes the stage
\* unbound again
C3_NoRewaiting ==
    [][(myVehicle \in Vehicles) => (myVehicle' \in Vehicles)]_vars

\* a stage bound, aborted and then arrived is still bound
C3_Witness ==
    /\ pc = "arrived"
    /\ myVehicle \in Vehicles
    /\ myVehicle \notin aboard

\* C4: immediately after setVehicle(v) the bound vehicle is v, isWaiting4Vehicle()
\* is false and travelledDistance is v's route distance from its depart position
\* to its position at bind time
C4_BindingBaseline ==
    (lastOp = "setVehicle" \/ (lastOp = "proceed" /\ lastVeh # nullptr))
    => /\ lastVeh \in Vehicles
       /\ myVehicle = lastVeh
       /\ ~isWaiting4Vehicle
       /\ myVehicleDistance =
             (veh[lastVeh].routeIdx - 1) * EdgeLength + veh[lastVeh].pos - VehDepartPos(lastVeh)

\* a waiting transportable was picked up by V1 on the second edge of its route
C4_Witness ==
    /\ lastOp = "setVehicle"
    /\ myVehicle = "V1"
    /\ veh["V1"].routeIdx = 2
    /\ myVehicleDistance > veh["V1"].pos

\* C5: setArrived stores the vehicle's route distance from its depart position to
\* its current position minus the baseline stored at bind time if the stage is
\* bound, and -1 if it was never bound
C5_NetDistanceOnArrival ==
    [][(pc # "arrived" /\ pc' = "arrived")
       => myVehicleDistance' =
             IF myVehicle \in Vehicles
             THEN ((veh[myVehicle].routeIdx - 1) * EdgeLength + veh[myVehicle].pos
                   - VehDepartPos(myVehicle)) - myVehicleDistance
             ELSE -1]_vars

\* the transportable boarded V1 after V1 had driven 1 and left it when V1 had
\* driven 2 in total
C5_Witness ==
    /\ lastOp = "setArrived"
    /\ myVehicle = "V1"
    /\ getDistanceBetween("V1") = 2
    /\ myVehicleDistance = 1

\* C6: after setArrived arrivalPos is the position of the bound vehicle if it is
\* stopped, and is unchanged if the vehicle is not stopped or the stage is unbound
C6_ArrivalPosOnArrival ==
    [][(pc # "arrived" /\ pc' = "arrived")
       => myArrivalPos' =
             IF myVehicle \in Vehicles /\ veh[myVehicle].stopped
             THEN veh[myVehicle].pos
             ELSE myArrivalPos]_vars

\* the stage arrived in a stopped vehicle at a position that is not the planned
\* arrival position
C6_Witness ==
    /\ lastOp = "setArrived"
    /\ myVehicle \in Vehicles
    /\ veh[myVehicle].stopped
    /\ myArrivalPos = veh[myVehicle].pos
    /\ myArrivalPos # 0

\* C7: abort on a bound stage removes the transportable from the vehicle and
\* changes neither travelledDistance, arrivalPos, the arrival time nor any
\* waiting registry
C7_AbortBoundFrame ==
    [][(pc = "active" /\ pc' = "aborted" /\ myVehicle \in Vehicles)
       => (/\ myVehicle \in aboard
           /\ aboard' = aboard \ {myVehicle}
           /\ UNCHANGED <<myVehicleDistance, myArrivalPos, myArrived>>
           /\ UNCHANGED <<personWaiting, containerWaiting, edgePersons, edgeContainers>>)]_vars

\* the stage was aborted while its vehicle V1 had driven on after boarding
C7_Witness ==
    /\ lastOp = "abort"
    /\ myVehicle = "V1"
    /\ "V1" \notin aboard
    /\ getDistanceBetween("V1") > myVehicleDistance

\* C8: abort on an activated, unbound stage cancels the wait through the
\* coordinator of the transportable's kind: afterwards the transportable is in
\* no waiting registry, the other coordinator's registry and every vehicle are
\* untouched and the stage is still unbound
C8_AbortUnbound ==
    [][(pc = "active" /\ pc' = "aborted" /\ myVehicle = nullptr)
       => (/\ \A e \in Edges : /\ transportable.id \notin personWaiting'[e]
                               /\ transportable.id \notin containerWaiting'[e]
           /\ IF transportable.isPerson
              THEN UNCHANGED containerWaiting
              ELSE UNCHANGED personWaiting
           /\ UNCHANGED <<veh, aboard, edgeWaiting, insertion>>
           /\ myVehicle' = nullptr)]_vars

\* a container that waited on an edge was aborted and is in no waiting registry
C8_Witness ==
    /\ lastOp = "abort"
    /\ myVehicle = nullptr
    /\ ~transportable.isPerson
    /\ myWaitingEdge \in Edges
    /\ transportable.id \in edgeContainers[myWaitingEdge]
    /\ \A e \in Edges : transportable.id \notin containerWaiting[e]

\* C9: for every time t >= waitingSince, getWaitingTime(t) is t - waitingSince
\* while the stage is unbound and 0 once it is bound; right after proceed, which
\* sets waitingSince to the current time, the waiting time is 0
C9_WaitingTime ==
    /\ \A t \in 0..(MaxTime + 1) :
          t >= myWaitingSince
          => getWaitingTime(t) = IF myVehicle \in Vehicles THEN 0 ELSE t - myWaitingSince
    /\ lastOp = "proceed" => getWaitingTime(now) = 0

\* the transportable waited for one time step and was then picked up
C9_Witness ==
    /\ lastOp = "setVehicle"
    /\ myWaitingSince = 0
    /\ now = 1
    /\ getWaitingTime(now) = 0

\* C10: isWaitingFor(v) is true exactly if v's id or v's line is in
\* acceptedLines, or acceptedLines contains "ANY" and v stops at the destination
\* stop when one is set, at the destination edge otherwise
C10_MatchingRules ==
    \A v \in Vehicles :
        isWaitingFor(v) <=>
            \/ {VehID(v), veh[v].line} \cap myLines # {}
            \/ /\ "ANY" \in myLines
               /\ \/ myDestinationStop \in Stops /\ VehStopsAt(v, myDestinationStop)
                  \/ myDestinationStop \notin Stops /\ VehStopsAtEdge(v, myDestination)

\* a transportable accepting "ANY" with a destination stop was picked up by V2,
\* which stops at that stop, while V1 stops on the destination edge only
C10_Witness ==
    /\ lastOp = "setVehicle"
    /\ myVehicle = "V2"
    /\ "ANY" \in myLines
    /\ myDestinationStop = "s1"
    /\ VehStopsAtEdge("V1", myDestination)
    /\ ~isWaitingFor("V1")

\* C11 as stated: when proceed leaves a person or a container waiting and
\* acceptedLines is exactly {"taxi"}, the stage stays unbound and exactly one
\* reservation is submitted, with the current time as request and pickup time,
\* the waiting edge and position, and the destination edge and arrival position;
\* for any other acceptedLines no reservation is submitted
C11_TaxiReservation ==
    [][(pc = "constructed" /\ pc' = "active" /\ myVehicle' = nullptr)
       => (reservations' =
             IF myLines = {"taxi"}
             THEN Append(reservations,
                         [person |-> transportable.id, reservationTime |-> now,
                          pickupTime |-> now, from |-> myWaitingEdge',
                          fromPos |-> myWaitingPos', to |-> myDestination,
                          toPos |-> myArrivalPos])
             ELSE reservations)]_vars

\* C12: at binding the cached id, line and class are those of the vehicle at
\* that moment, and once bound they keep their values whatever happens to the
\* vehicle's attributes and through setArrived and abort
C12_CachedAttributes ==
    [][/\ (myVehicle = nullptr /\ myVehicle' # nullptr)
          => /\ myVehicleID' = VehID(myVehicle')
             /\ myVehicleLine' = veh[myVehicle'].line
             /\ myVehicleVClass' = VehVClass(myVehicle')
       /\ (myVehicle # nullptr)
          => UNCHANGED <<myVehicleID, myVehicleLine, myVehicleVClass>>]_vars

\* the stage has arrived in a vehicle whose line was changed after binding
C12_Witness ==
    /\ pc = "arrived"
    /\ myVehicle \in Vehicles
    /\ myVehicleID = VehID(myVehicle)
    /\ myVehicleLine # veh[myVehicle].line

\* C13 as stated: whenever tripInfoOutput emits the record, the routeLength it
\* writes and the distance it forwards are the net distance the transportable
\* travelled in this stage, or -1 if it never boarded a vehicle: -1 for an
\* unbound stage, the finalized distance for an arrived stage, and for a
\* transportable still aboard the vehicle's distance now minus the baseline
C13_ReportedDistanceIsNet ==
    (pc = "reported" /\ (myVehicle = nullptr \/ myArrived >= 0 \/ myVehicle \in aboard))
    => LET net == IF myVehicle = nullptr
                  THEN -1
                  ELSE IF myArrived >= 0
                       THEN myVehicleDistance
                       ELSE getDistanceBetween(myVehicle) - myVehicleDistance
       IN  /\ os.routeLength = net
           /\ rideData.distance = net

\* C20 as stated: the duration forwarded to the statistics aggregator is the
\* duration written in the record: arrival minus departure if arrived, else now
\* minus departure if departed, else -1
C20_ForwardedDurationIsWritten ==
    pc = "reported"
    => LET d == IF myArrived >= 0
                THEN myArrived - myDeparted
                ELSE IF myDeparted >= 0 THEN now - myDeparted ELSE -1
       IN  /\ os.duration = ToString(d)
           /\ rideData.duration = d

\* C14: in every state after activation and before termination no query
\* dereferences a null pointer, no query on an unbound stage dereferences the
\* vehicle, and the current-edge, edge-position, position, angle and speed
\* queries on a bound stage read none of the waiting fields
C14_QueriesSafe ==
    pc = "active"
    => \A q \in Queries :
          /\ \A d \in queryDerefs(q) : d.value # nullptr
          /\ myVehicle = nullptr => \A d \in queryDerefs(q) : d.field # "myVehicle"
          /\ (myVehicle # nullptr /\ q \in CurrentAccessors)
             => queryReads(q) \cap {"myWaitingEdge", "myWaitingPos", "myStopWaitPos"} = {}

\* a stage bound by a triggered start has no waiting edge, and its queries ask
\* the vehicle only
C14_Witness ==
    /\ pc = "active"
    /\ myVehicle \in Vehicles
    /\ myWaitingEdge = nullptr
    /\ queryDerefs("getAngle") = {Deref("myVehicle", myVehicle)}
    /\ queryReads("getPosition") = {}

\* C15: after activation getWaitingDescription is non-empty exactly while the
\* stage is unbound, and it then names the accepted lines and the place the
\* transportable waits at: the stop whose wait position it took when it waits
\* at a stop, the waiting edge otherwise
C15_WaitingDescription ==
    pc = "active"
    => /\ getWaitingDescription # <<>> <=> myVehicle = nullptr
       /\ myVehicle = nullptr
          => getWaitingDescription
             = <<"waiting for ">> \o joinToString(myLines) \o <<" at ">>
               \o (IF myStopWaitPos # INVALID
                   THEN <<"busStop '",
                          CHOOSE s \in Stops : StopWaitPosition(s) = myStopWaitPos,
                          "'">>
                   ELSE <<"edge '", myWaitingEdge, "'">>)

\* C16: no step changes myLines, and in every state clone() is a stage with
\* equal lines, the same destination, destination stop and intended vehicle,
\* that is unbound with distance -1 and waiting time stamp -1
C16_LinesImmutableCloneFresh ==
    /\ [][myLines' = myLines]_vars
    /\ [](/\ clone.myLines = myLines
          /\ clone.myDestination = myDestination
          /\ clone.myDestinationStop = myDestinationStop
          /\ clone.myIntendedVehicleID = myIntendedVehicleID
          /\ clone.myIntendedDepart = myIntendedDepart
          /\ clone.myVehicle = nullptr
          /\ clone.myVehicleID = "NULL"
          /\ clone.myVehicleDistance = -1
          /\ clone.myWaitingSince = -1)

\* the clone of a stage that has ridden and arrived is unbound and has both
\* of its lines
C16_Witness ==
    /\ pc = "arrived"
    /\ myVehicle \in Vehicles
    /\ myVehicleDistance >= 0
    /\ myWaitingSince >= 0
    /\ Cardinality(myLines) = 2
    /\ clone.myLines = myLines
    /\ clone.myVehicle = nullptr

\* C17: a proceed that is not a triggered start ends in exactly one of two
\* ways. Either the stage is bound to a vehicle that waited on the waiting
\* edge for this transportable, triggered by its kind and not departed, the
\* transportable is aboard, the vehicle is handed to the insertion control and
\* no longer waits on the edge, and the transportable is in no waiting
\* registry; this happens exactly when such a vehicle exists. Or the stage is
\* unbound and the transportable is in the waiting registry of its kind under
\* the waiting edge and in the waiting set of that edge.
C17_BindOrWait ==
    [][(pc = "constructed" /\ pc' = "active" /\ ~isTriggeredStart)
       => LET t == transportable.id
              fitting ==
                  {v \in WaitingVehicles(myWaitingEdge', myWaitingPos') :
                      /\ VehDepartProcedure(v) = IF transportable.isPerson
                                                 THEN DEPART_TRIGGERED
                                                 ELSE DEPART_CONTAINER_TRIGGERED
                      /\ ~veh[v].departed}
              bound ==
                  /\ myVehicle' \in fitting
                  /\ myVehicle' \in aboard'
                  /\ myVehicle' \in insertion'
                  /\ myVehicle' \notin edgeWaiting'[myWaitingEdge']
                  /\ \A e \in Edges :
                        /\ t \notin personWaiting'[e] \cup containerWaiting'[e]
                        /\ t \notin edgePersons'[e] \cup edgeContainers'[e]
              waiting ==
                  /\ myVehicle' = nullptr
                  /\ aboard' = {}
                  /\ IF transportable.isPerson
                     THEN /\ t \in personWaiting'[myWaitingEdge']
                          /\ t \in edgePersons'[myWaitingEdge']
                     ELSE /\ t \in containerWaiting'[myWaitingEdge']
                          /\ t \in edgeContainers'[myWaitingEdge']
          IN  /\ myWaitingEdge' \in Edges
              /\ bound \/ waiting
              /\ ~(bound /\ waiting)
              /\ bound <=> fitting # {}]_vars

\* proceed has just bound the vehicle that waited on the waiting edge
C17_Witness ==
    /\ pc = "active"
    /\ lastOp = "proceed"
    /\ myWaitingEdge \in Edges
    /\ myVehicle \in Vehicles
    /\ myVehicle \in aboard
    /\ myVehicle \in insertion
    /\ myVehicle \notin edgeWaiting[myWaitingEdge]

\* C18: a proceed on the triggered-start path whose vehicle is registered
\* binds the stage to that vehicle, puts the transportable aboard and stamps
\* myWaitingSince with now; it adds the transportable to no waiting registry
\* and no edge set, submits no reservation, and leaves myWaitingEdge,
\* myWaitingPos and myStopWaitPos as the constructor left them
C18_TriggeredStart ==
    [][(/\ pc = "constructed"
        /\ pc' # pc
        /\ isTriggeredStart
        /\ getVehicle(LinesBegin(myLines)) # nullptr)
       => (/\ pc' = "active"
           /\ myVehicle' = getVehicle(LinesBegin(myLines))
           /\ myVehicle' \in aboard'
           /\ myWaitingSince' = now
           /\ UNCHANGED <<personWaiting, containerWaiting, edgePersons, edgeContainers,
                          reservations>>
           /\ myWaitingEdge' = nullptr
           /\ myStopWaitPos' = INVALID
           /\ myWaitingPos' = myWaitingPos)]_vars

\* a triggered start has just bound the vehicle named first in the lines, and
\* the stage never waited
C18_Witness ==
    /\ pc = "active"
    /\ lastOp = "proceed"
    /\ isTriggeredStart
    /\ myVehicle = getVehicle(LinesBegin(myLines))
    /\ myVehicle \in aboard
    /\ myWaitingSince = now
    /\ myWaitingEdge = nullptr

\* C19: when proceed binds a vehicle waiting on the edge at once, the count
\* of vehicles awaiting a person is decremented if the transportable is a
\* person, the count of vehicles awaiting a container if it is a container,
\* and the other count is unchanged
C19_RelevantCounter ==
    [][(/\ pc = "constructed"
        /\ pc' = "active"
        /\ ~isTriggeredStart
        /\ myVehicle' # nullptr)
       => IF transportable.isPerson
          THEN /\ myWaitingForPerson' = myWaitingForPerson - 1
               /\ myWaitingForContainer' = myWaitingForContainer
          ELSE /\ myWaitingForContainer' = myWaitingForContainer - 1
               /\ myWaitingForPerson' = myWaitingForPerson]_vars

====
